---- MODULE Spec2Model ----
(***************************************************************************)
(* Model of the voip-web signaling relay: the Socket.IO event handlers of  *)
(* voip_web/server.py over the storage backends of voip_web/storage.py.    *)
(*                                                                         *)
(* Spec      : every handler runs to completion (MemoryStorage, one        *)
(*             worker); one action per event handler.                      *)
(* SpecRedis : the join and disconnect handlers over RedisStorage, one     *)
(*             step per storage round trip, steps of different sessions    *)
(*             interleaved; a session runs one handler at a time.          *)
(* SpecStorage : voip_web/storage.py on its own: get_storage() picks the   *)
(*             backend, then the methods of that backend are called with   *)
(*             any arguments, in any order.                                *)
(* SpecExpiry : the writes to a RedisStorage and the expiry of its keys.   *)
(* SpecFault : SpecRedis with one Redis call that raises.                  *)
(* SpecConfig : the Config objects of voip_web/config.py.                  *)
(* SpecBoth : a MemoryStorage and a RedisStorage that get the same calls.  *)
(* SpecAnyRoom : connect, join and disconnect of Spec; the room name of a   *)
(*             join may be the empty string.                               *)
(***************************************************************************)
EXTENDS Integers, Sequences, FiniteSets, TLC

\* ------------------------------------------------------------------ bounds

\* largest limits.max_users_per_room the configurations of the model use
MaxCap == 2
\* limits.max_message_length of the modelled configuration
MaxLen == 1
\* the 24 h of `expire(key, 86400)`, in ticks of the clock of the model
TTL == 2

\* -------------------------------------------------------------- input sets

\* request.sid values the transport hands out
Sids == {"s1", "s2", "s3"}
\* data['username'] / data['target'] / data['caller'] values
Names == {"Alice", "Bob"}
\* the display name each client sends as data['username']; s1 and s3 share one
UserNames(sid) == IF sid = "s2" THEN {"Bob"} ELSE {"Alice"}
\* a name no session uses
Carol == "Carol"
\* a name that differs from a used one in case only
alice == "alice"
Targets == Names \cup {Carol, alice}
\* data['room'] values (non-empty room names)
RoomNames == {"lobby", "den"}
\* data['call_type'] values
CallTypes == {"audio", "video", "screen"}
\* data['signal'] payloads
Signals == {"offer", "candidate"}
\* data['message'] values: texts of length 0 .. MaxLen + 1
Messages == UNION {[1..n -> {"x"}] : n \in 0..(MaxLen + 1)}
\* datetime.now().strftime('%H:%M') values
Clock == {"12:00"}

VARIABLES
    users,    \* MemoryStorage.users : dict sid -> {'name', 'room'}
    rooms,    \* MemoryStorage.rooms : dict room name -> list of sid
    conn,     \* transport: "new" | "connected" | "disconnected" per sid
    troom,    \* transport: the Socket.IO rooms each sid entered with join_room
    config,   \* the limits and features the handlers read from get_config()
    last,     \* the event being handled: request.sid, event name, data
    sent,     \* the emit() calls of that handler, in order, each with its recipients
    redis,    \* RedisStorage: the keys of the shared server, key -> value
    pc,       \* SpecRedis: where the handler of each session stands
    loc,      \* SpecRedis: the local variables of that handler
    peak,     \* SpecRedis: per room, the most join handlers that were ever at once
              \* between their capacity check and their insert
    storage,  \* storage._storage: "None" or the class of the backend instance
    env,      \* config redis.enabled, and whether the Redis server answers the ping
    ret,      \* SpecStorage: the value the last storage call returned
    ttl,      \* SpecStorage: the time each Redis key has left to live, in ticks
    cfgs,     \* SpecConfig: self.config of each Config object: section -> dict object
    heap      \* SpecConfig: the dict objects that hold the sections: key -> value

\* the state of the run-to-completion specification, and what it leaves alone
svars == <<storage, env, ret, ttl, cfgs, heap>>
mvars == <<users, rooms, last, svars>>
rvars == <<redis, pc, loc, peak, svars>>
vars == <<users, rooms, conn, troom, config, last, sent, redis, pc, loc, peak, svars>>

\* ------------------------------------------------------------ dict helpers

\* d[k] = v
DictSet(d, k, v) == [x \in (DOMAIN d) \cup {k} |-> IF x = k THEN v ELSE d[x]]
\* del d[k]
DictDel(d, k) == [x \in (DOMAIN d) \ {k} |-> d[x]]
EmptyDict == [x \in {} |-> {}]
\* what is left of a dict when a statement on it raised KeyError
KeyError == [x \in {"<KeyError>"} |-> "<KeyError>"]
\* del d[k]
Del(d, k) == IF k \in DOMAIN d THEN DictDel(d, k) ELSE KeyError

\* `x in list`
InList(list, x) == \E i \in 1..Len(list) : list[i] = x

\* list.remove(x): drops the first occurrence
RECURSIVE ListRemove(_, _)
ListRemove(list, x) ==
    IF list = <<>> THEN <<>>
    ELSE IF Head(list) = x THEN Tail(list)
    ELSE <<Head(list)>> \o ListRemove(Tail(list), x)

\* --------------------------------------------------------- MemoryStorage

\* what dict.get returns for a missing sid
None == [name |-> "<None>", room |-> "<None>"]

get_users(us) == us

get_user(us, sid) == IF sid \in DOMAIN us THEN us[sid] ELSE None

set_user(us, sid, user_data) == DictSet(us, sid, user_data)

\* a delete_user without `if sid in self.users`
delete_user_unguarded(us, sid) == Del(us, sid)

delete_user(us, sid) == IF sid \in DOMAIN us THEN Del(us, sid) ELSE us

get_rooms(rs) == rs

get_room(rs, room_name) == IF room_name \in DOMAIN rs THEN rs[room_name] ELSE <<>>

\* an add_user_to_room without `if sid not in self.rooms[room_name]`
add_user_to_room_again(rs, room_name, sid) ==
    LET rs1 == IF room_name \in DOMAIN rs THEN rs ELSE DictSet(rs, room_name, <<>>)
    IN  DictSet(rs1, room_name, Append(rs1[room_name], sid))

add_user_to_room(rs, room_name, sid) ==
    LET rs1 == IF room_name \notin DOMAIN rs THEN DictSet(rs, room_name, <<>>) ELSE rs
    IN  IF ~InList(rs1[room_name], sid)
        THEN DictSet(rs1, room_name, Append(rs1[room_name], sid))
        ELSE rs1

remove_user_from_room(rs, room_name, sid) ==
    IF room_name \in DOMAIN rs /\ InList(rs[room_name], sid)
    THEN DictSet(rs, room_name, ListRemove(rs[room_name], sid))
    ELSE rs

delete_room(rs, room_name) == IF room_name \in DOMAIN rs THEN Del(rs, room_name) ELSE rs

\* ------------------------------------------------------------- transport

\* flask_socketio.join_room(room) for the session of the request
join_room(tr, sid, room) == [tr EXCEPT ![sid] = @ \cup {room}]

\* the sessions an emit(..., room=room) reaches
InRoom(tr, room) == {s \in Sids : conn[s] = "connected" /\ room \in tr[s]}

\* the sessions an emit(..., room=target_sid) reaches: the personal room of a sid
Personal(sid) == {s \in Sids : s = sid /\ conn[s] = "connected"}

Emit(ev, data, to) == [ev |-> ev, data |-> data, to |-> to]

Request(ev, sid, data) == [ev |-> ev, sid |-> sid, data |-> data]

\* no handler has run since the transport last took the emitted packets
NoRequest == Request("none", "<None>", [none |-> TRUE])

\* ------------------------------------------------------- handler helpers

\* [storage.get_user(s)['name'] for s in storage.get_room(room) if storage.get_user(s)]
RECURSIVE NamesOf(_, _)
NamesOf(us, list) ==
    IF list = <<>> THEN <<>>
    ELSE IF get_user(us, Head(list)) # None
         THEN <<get_user(us, Head(list)).name>> \o NamesOf(us, Tail(list))
         ELSE NamesOf(us, Tail(list))

\* a comprehension that misses the member added last
room_user_names_without_last(us, rs, room) ==
    NamesOf(us, SubSeq(get_room(rs, room), 1, Len(get_room(rs, room)) - 1))

room_user_names(us, rs, room) == NamesOf(us, get_room(rs, room))

\* the value of target_sid when the lookup loop finds nobody
NoSid == "<None>"

\* for s in storage.get_room(room): u = storage.get_user(s);
\*     if u and u['name'] == target: target_sid = s; break
RECURSIVE FirstMatch(_, _, _)
FirstMatch(us, list, target) ==
    IF list = <<>> THEN NoSid
    ELSE IF get_user(us, Head(list)) # None /\ get_user(us, Head(list)).name = target
         THEN Head(list)
         ELSE FirstMatch(us, Tail(list), target)

\* str.lower() on the names of the model
Lower(name) == IF name = "Alice" THEN "alice" ELSE IF name = "Bob" THEN "bob"
               ELSE IF name = "Carol" THEN "carol" ELSE name

\* a lookup that compares the names without regard to case
RECURSIVE FirstMatchIgnoreCase(_, _, _)
FirstMatchIgnoreCase(us, list, target) ==
    IF list = <<>> THEN NoSid
    ELSE IF get_user(us, Head(list)) # None
            /\ Lower(get_user(us, Head(list)).name) = Lower(target)
         THEN Head(list)
         ELSE FirstMatchIgnoreCase(us, Tail(list), target)

find_target_ignore_case(us, rs, room, target) ==
    FirstMatchIgnoreCase(us, get_room(rs, room), target)

\* a lookup that forgets to compare the name: the first member of the room
find_target_any_name(us, rs, room, target) ==
    IF get_room(rs, room) = <<>> THEN NoSid ELSE Head(get_room(rs, room))

find_target(us, rs, room, target) == FirstMatch(us, get_room(rs, room), target)

\* the capacity test on the default room instead of the requested one
room_full_default_room(rs, room, max_users) == Len(get_room(rs, "lobby")) >= max_users

\* the capacity test with > for >=
room_full_off_by_one(rs, room, max_users) == Len(get_room(rs, room)) > max_users

\* len(storage.get_room(room)) >= max_users
room_full(rs, room, max_users) == Len(get_room(rs, room)) >= max_users

\* the test `if room:` of handle_disconnect
truthy(room) == room # ""

\* ------------------------------------------------------------------ state

Configs ==
    [max_users_per_room : 1..MaxCap, max_message_length : {MaxLen},
     audio_calls : BOOLEAN, video_calls : BOOLEAN]

\* the locals of a handler that is not running
NoLocals == [room |-> "<None>", username |-> "<None>", todo |-> {}, cur |-> "<None>",
             names |-> <<>>, raised |-> FALSE]

\* ---- Config

\* Config.DEFAULT_CONFIG, the sections and keys the model follows
DEFAULT_VALUES ==
    [server |-> [host |-> "0.0.0.0", port |-> 5000],
     features |-> [audio_calls |-> TRUE],
     limits |-> [max_users_per_room |-> 50]]

\* the dict object of a section of the class attribute DEFAULT_CONFIG
DefaultObject(section) == <<"DEFAULT_CONFIG", section>>

\* DEFAULT_CONFIG itself: section -> dict object
DEFAULT_CONFIG == [section \in DOMAIN DEFAULT_VALUES |-> DefaultObject(section)]

\* the names the Config objects of the program are bound to
Instances == {"c1", "c2"}

\* the name is bound to no Config object
NoConfig == [x \in {"<unbound>"} |-> "<unbound>"]

\* the value `get` returns for a missing key (default=None)
Missing == "<None>"

ConfigInit ==
    /\ cfgs = [c \in Instances |-> NoConfig]
    /\ heap = [obj \in {DefaultObject(section) : section \in DOMAIN DEFAULT_VALUES}
                   |-> DEFAULT_VALUES[obj[2]]]

RedisInit ==
    /\ ConfigInit
    /\ redis = EmptyDict
    /\ pc = [s \in Sids |-> "idle"]
    /\ loc = [s \in Sids |-> NoLocals]
    /\ peak = [r \in RoomNames |-> 0]

\* the server runs on the MemoryStorage that get_storage() made at startup
Init ==
    /\ RedisInit
    /\ storage = "MemoryStorage"
    /\ env = [redis_enabled |-> FALSE, redis_up |-> FALSE]
    /\ ret = None
    /\ ttl = EmptyDict
    /\ users = EmptyDict
    /\ rooms = EmptyDict
    /\ conn = [s \in Sids |-> "new"]
    /\ troom = [s \in Sids |-> {}]
    /\ config \in Configs
    /\ last = NoRequest
    /\ sent = <<>>

\* ---------------------------------------------------------------- handlers

\* a connect handler that installs a session record
handle_connect_creates(sid) ==
    /\ last = NoRequest
    /\ conn[sid] = "new"
    /\ conn' = [conn EXCEPT ![sid] = "connected"]
    /\ last' = Request("connect", sid, [none |-> TRUE])
    /\ sent' = <<Emit("server_message", [msg |-> "Connecte au serveur"], {sid})>>
    /\ users' = set_user(users, sid, [name |-> "Anonymous", room |-> "None"])
    /\ UNCHANGED <<rooms, troom, config, rvars>>

\* 'connect': greets the client; no storage call
handle_connect(sid) ==
    /\ last = NoRequest
    /\ conn[sid] = "new"
    /\ conn' = [conn EXCEPT ![sid] = "connected"]
    /\ last' = Request("connect", sid, [none |-> TRUE])
    /\ sent' = <<Emit("server_message", [msg |-> "Connecte au serveur"], {sid})>>
    /\ UNCHANGED <<users, rooms, troom, config, rvars>>

\* handle_disconnect, the rooms it leaves: sid out of the member list of the room of
\* its record, and the room deleted when that list is empty
disconnect_rooms(us, rs, sid) ==
    LET user == get_user(us, sid)
        room == user.room
        rs1 == IF InList(get_room(rs, room), sid)
               THEN remove_user_from_room(rs, room, sid)
               ELSE rs
    IN  IF user # None /\ truthy(room)
        THEN IF get_room(rs1, room) = <<>> THEN delete_room(rs1, room) ELSE rs1
        ELSE rs

\* a disconnect that leaves the record of sid in the registry
disconnect_users_kept(us, sid) == us

\* handle_disconnect, the registry it leaves
disconnect_users(us, sid) ==
    IF get_user(us, sid) # None THEN delete_user(us, sid) ELSE us

\* handle_disconnect, the events it emits: user_left to the room of the record.
\* The socket of sid is closed when the handler runs, so sid receives nothing.
disconnect_sent(us, rs, tr, sid) ==
    LET user == get_user(us, sid)
        room == user.room
        rs1 == IF InList(get_room(rs, room), sid)
               THEN remove_user_from_room(rs, room, sid)
               ELSE rs
        remaining_users == room_user_names(us, rs1, room)
    IN  IF user # None /\ truthy(room)
        THEN <<Emit("user_left", [username |-> user.name, users |-> remaining_users],
                    InRoom(tr, room) \ {sid})>>
        ELSE <<>>

\* 'disconnect': the handler, then the transport drops the sid from its rooms.
handle_disconnect(sid) ==
    /\ last = NoRequest
    /\ conn[sid] = "connected"
    /\ last' = Request("disconnect", sid, [none |-> TRUE])
    /\ rooms' = disconnect_rooms(users, rooms, sid)
    /\ sent' = disconnect_sent(users, rooms, troom, sid)
    /\ users' = disconnect_users(users, sid)
    /\ conn' = [conn EXCEPT ![sid] = "disconnected"]
    /\ troom' = [troom EXCEPT ![sid] = {}]
    /\ UNCHANGED <<config, rvars>>

\* a join handler that emits user_joined without include_self=False
handle_join_include_self(sid, username, room) ==
    /\ last = NoRequest
    /\ conn[sid] = "connected"
    /\ last' = Request("join", sid, [username |-> username, room |-> room])
    /\ IF room_full(rooms, room, config.max_users_per_room)
       THEN /\ sent' = <<Emit("error", [msg |-> "Room pleine"], {sid})>>
            /\ UNCHANGED <<users, rooms, troom>>
       ELSE LET us1 == set_user(users, sid, [name |-> username, room |-> room])
                tr1 == join_room(troom, sid, room)
                rs1 == add_user_to_room(rooms, room, sid)
                room_users == room_user_names(us1, rs1, room)
            IN  /\ users' = us1
                /\ troom' = tr1
                /\ rooms' = rs1
                /\ sent' = <<Emit("join_success", [username |-> username, room |-> room], {sid}),
                             Emit("user_joined", [username |-> username, users |-> room_users],
                                  InRoom(tr1, room)),
                             Emit("user_list", [users |-> room_users], {sid})>>
    /\ UNCHANGED <<conn, config, rvars>>

\* 'join'
handle_join(sid, username, room) ==
    /\ last = NoRequest
    /\ conn[sid] = "connected"
    /\ last' = Request("join", sid, [username |-> username, room |-> room])
    /\ IF room_full(rooms, room, config.max_users_per_room)
       THEN /\ sent' = <<Emit("error", [msg |-> "Room pleine"], {sid})>>
            /\ UNCHANGED <<users, rooms, troom>>
       ELSE LET us1 == set_user(users, sid, [name |-> username, room |-> room])
                tr1 == join_room(troom, sid, room)
                rs1 == add_user_to_room(rooms, room, sid)
                room_users == room_user_names(us1, rs1, room)
            IN  /\ users' = us1
                /\ troom' = tr1
                /\ rooms' = rs1
                /\ sent' = <<Emit("join_success", [username |-> username, room |-> room], {sid}),
                             Emit("user_joined", [username |-> username, users |-> room_users],
                                  InRoom(tr1, room) \ {sid}),
                             Emit("user_list", [users |-> room_users], {sid})>>
    /\ UNCHANGED <<conn, config, rvars>>

\* a length test that also rejects a message of exactly max_length characters
message_too_long_at_limit(message, max_length) == Len(message) >= max_length

\* `len(message) > max_length`
message_too_long(message, max_length) == Len(message) > max_length

\* a text_message handler that emits with include_self=False
handle_text_message_skip_self(sid, message, timestamp) ==
    /\ last = NoRequest
    /\ conn[sid] = "connected"
    /\ last' = Request("text_message", sid, [message |-> message])
    /\ LET user == get_user(users, sid)
       IN  IF user = None
           THEN sent' = <<>>
           ELSE IF message_too_long(message, config.max_message_length)
           THEN sent' = <<Emit("error", [msg |-> "Message trop long"], {sid})>>
           ELSE sent' = <<Emit("text_message",
                               [username |-> user.name, message |-> message,
                                timestamp |-> timestamp],
                               InRoom(troom, user.room) \ {sid})>>
    /\ UNCHANGED <<users, rooms, conn, troom, config, rvars>>

\* 'text_message'
handle_text_message(sid, message, timestamp) ==
    /\ last = NoRequest
    /\ conn[sid] = "connected"
    /\ last' = Request("text_message", sid, [message |-> message])
    /\ LET user == get_user(users, sid)
       IN  IF user = None
           THEN sent' = <<>>
           ELSE IF message_too_long(message, config.max_message_length)
           THEN sent' = <<Emit("error", [msg |-> "Message trop long"], {sid})>>
           ELSE sent' = <<Emit("text_message",
                               [username |-> user.name, message |-> message,
                                timestamp |-> timestamp],
                               InRoom(troom, user.room))>>
    /\ UNCHANGED <<users, rooms, conn, troom, config, rvars>>

\* a call_user handler without the test of features.video_calls
handle_call_video_unchecked(sid, target, call_type) ==
    /\ last = NoRequest
    /\ conn[sid] = "connected"
    /\ last' = Request("call_user", sid, [target |-> target, call_type |-> call_type])
    /\ LET caller == get_user(users, sid)
           target_sid == find_target(users, rooms, caller.room, target)
       IN  IF caller = None
           THEN sent' = <<>>
           ELSE IF call_type = "audio" /\ ~config.audio_calls
           THEN sent' = <<Emit("error", [msg |-> "Appels audio desactives"], {sid})>>
           ELSE IF target_sid # NoSid
           THEN sent' = <<Emit("incoming_call",
                               [caller |-> caller.name, call_type |-> call_type],
                               Personal(target_sid))>>
           ELSE sent' = <<>>
    /\ UNCHANGED <<users, rooms, conn, troom, config, rvars>>

\* a call_user handler that emits incoming_call with room=room
handle_call_to_room(sid, target, call_type) ==
    /\ last = NoRequest
    /\ conn[sid] = "connected"
    /\ last' = Request("call_user", sid, [target |-> target, call_type |-> call_type])
    /\ LET caller == get_user(users, sid)
           target_sid == find_target(users, rooms, caller.room, target)
       IN  IF caller = None
           THEN sent' = <<>>
           ELSE IF call_type = "audio" /\ ~config.audio_calls
           THEN sent' = <<Emit("error", [msg |-> "Appels audio desactives"], {sid})>>
           ELSE IF call_type = "video" /\ ~config.video_calls
           THEN sent' = <<Emit("error", [msg |-> "Appels video desactives"], {sid})>>
           ELSE IF target_sid # NoSid
           THEN sent' = <<Emit("incoming_call",
                               [caller |-> caller.name, call_type |-> call_type],
                               InRoom(troom, caller.room))>>
           ELSE sent' = <<>>
    /\ UNCHANGED <<users, rooms, conn, troom, config, rvars>>

\* 'call_user'
handle_call(sid, target, call_type) ==
    /\ last = NoRequest
    /\ conn[sid] = "connected"
    /\ last' = Request("call_user", sid, [target |-> target, call_type |-> call_type])
    /\ LET caller == get_user(users, sid)
           target_sid == find_target(users, rooms, caller.room, target)
       IN  IF caller = None
           THEN sent' = <<>>
           ELSE IF call_type = "audio" /\ ~config.audio_calls
           THEN sent' = <<Emit("error", [msg |-> "Appels audio desactives"], {sid})>>
           ELSE IF call_type = "video" /\ ~config.video_calls
           THEN sent' = <<Emit("error", [msg |-> "Appels video desactives"], {sid})>>
           ELSE IF target_sid # NoSid
           THEN sent' = <<Emit("incoming_call",
                               [caller |-> caller.name, call_type |-> call_type],
                               Personal(target_sid))>>
           ELSE sent' = <<>>
    /\ UNCHANGED <<users, rooms, conn, troom, config, rvars>>

\* a call_answer handler that does not read data['accepted']
handle_call_answer_always_accepts(sid, caller_name, accepted, call_type) ==
    /\ last = NoRequest
    /\ conn[sid] = "connected"
    /\ last' = Request("call_answer", sid,
                       [caller |-> caller_name, accepted |-> accepted, call_type |-> call_type])
    /\ LET answerer == get_user(users, sid)
           caller_sid == find_target(users, rooms, answerer.room, caller_name)
       IN  IF answerer = None
           THEN sent' = <<>>
           ELSE IF caller_sid = NoSid
           THEN sent' = <<>>
           ELSE sent' = <<Emit("call_accepted",
                               [answerer |-> answerer.name, call_type |-> call_type],
                               Personal(caller_sid))>>
    /\ UNCHANGED <<users, rooms, conn, troom, config, rvars>>

\* 'call_answer'
handle_call_answer(sid, caller_name, accepted, call_type) ==
    /\ last = NoRequest
    /\ conn[sid] = "connected"
    /\ last' = Request("call_answer", sid,
                       [caller |-> caller_name, accepted |-> accepted, call_type |-> call_type])
    /\ LET answerer == get_user(users, sid)
           caller_sid == find_target(users, rooms, answerer.room, caller_name)
       IN  IF answerer = None
           THEN sent' = <<>>
           ELSE IF caller_sid = NoSid
           THEN sent' = <<>>
           ELSE IF accepted
           THEN sent' = <<Emit("call_accepted",
                               [answerer |-> answerer.name, call_type |-> call_type],
                               Personal(caller_sid))>>
           ELSE sent' = <<Emit("call_rejected", [answerer |-> answerer.name],
                               Personal(caller_sid))>>
    /\ UNCHANGED <<users, rooms, conn, troom, config, rvars>>

\* a webrtc_signal handler that relays the signal's kind in place of the payload
handle_webrtc_signal_rewritten(sid, target, signal) ==
    /\ last = NoRequest
    /\ conn[sid] = "connected"
    /\ last' = Request("webrtc_signal", sid, [target |-> target, signal |-> signal])
    /\ LET sender == get_user(users, sid)
           target_sid == find_target(users, rooms, sender.room, target)
       IN  IF sender = None
           THEN sent' = <<>>
           ELSE IF target_sid # NoSid
           THEN sent' = <<Emit("webrtc_signal",
                               [sender |-> sender.name, signal |-> "offer"],
                               Personal(target_sid))>>
           ELSE sent' = <<>>
    /\ UNCHANGED <<users, rooms, conn, troom, config, rvars>>

\* 'webrtc_signal'
handle_webrtc_signal(sid, target, signal) ==
    /\ last = NoRequest
    /\ conn[sid] = "connected"
    /\ last' = Request("webrtc_signal", sid, [target |-> target, signal |-> signal])
    /\ LET sender == get_user(users, sid)
           target_sid == find_target(users, rooms, sender.room, target)
       IN  IF sender = None
           THEN sent' = <<>>
           ELSE IF target_sid # NoSid
           THEN sent' = <<Emit("webrtc_signal",
                               [sender |-> sender.name, signal |-> signal],
                               Personal(target_sid))>>
           ELSE sent' = <<>>
    /\ UNCHANGED <<users, rooms, conn, troom, config, rvars>>

\* a hangup handler that also takes the session out of its room
handle_hangup_leaves(sid, target) ==
    /\ last = NoRequest
    /\ conn[sid] = "connected"
    /\ last' = Request("hangup", sid, [target |-> target])
    /\ LET user == get_user(users, sid)
           target_sid == find_target(users, rooms, user.room, target)
       IN  /\ IF user = None
              THEN sent' = <<>>
              ELSE IF target_sid # NoSid
              THEN sent' = <<Emit("call_ended", [username |-> user.name],
                                  Personal(target_sid))>>
              ELSE sent' = <<>>
           /\ rooms' = IF user = None THEN rooms
                                      ELSE remove_user_from_room(rooms, user.room, sid)
    /\ UNCHANGED <<users, conn, troom, config, rvars>>

\* 'hangup'
handle_hangup(sid, target) ==
    /\ last = NoRequest
    /\ conn[sid] = "connected"
    /\ last' = Request("hangup", sid, [target |-> target])
    /\ LET user == get_user(users, sid)
           target_sid == find_target(users, rooms, user.room, target)
       IN  IF user = None
           THEN sent' = <<>>
           ELSE IF target_sid # NoSid
           THEN sent' = <<Emit("call_ended", [username |-> user.name], Personal(target_sid))>>
           ELSE sent' = <<>>
    /\ UNCHANGED <<users, rooms, conn, troom, config, rvars>>

\* the transport takes the packets the handler emitted; the worker is free for the
\* next event (handlers run to completion, one at a time)
deliver ==
    /\ last # NoRequest
    /\ last' = NoRequest
    /\ sent' = <<>>
    /\ UNCHANGED <<users, rooms, conn, troom, config, rvars>>

Next ==
    \/ deliver
    \/ \E sid \in Sids :
        \/ handle_connect(sid)
        \/ handle_disconnect(sid)
        \/ \E username \in UserNames(sid), room \in RoomNames : handle_join(sid, username, room)
        \/ \E message \in Messages, timestamp \in Clock :
               handle_text_message(sid, message, timestamp)
        \/ \E target \in Targets, call_type \in CallTypes : handle_call(sid, target, call_type)
        \/ \E caller_name \in Targets, accepted \in BOOLEAN, call_type \in CallTypes :
               handle_call_answer(sid, caller_name, accepted, call_type)
        \/ \E target \in Targets, signal \in Signals : handle_webrtc_signal(sid, target, signal)
        \/ \E target \in Targets : handle_hangup(sid, target)

Spec == Init /\ [][Next]_vars

\* data['room'] values when the client is free to send the empty string as well
AnyRoomNames == {"", "lobby"}

NextAnyRoom ==
    \/ deliver
    \/ \E sid \in Sids :
        \/ handle_connect(sid)
        \/ handle_disconnect(sid)
        \/ \E username \in UserNames(sid), room \in AnyRoomNames :
               handle_join(sid, username, room)

\* connect, join and disconnect, each run to completion, with any room name
SpecAnyRoom == Init /\ [][NextAnyRoom]_vars

\* ----------------------------------------------------------- RedisStorage

\* f"voip:user:{sid}" and f"voip:room:{room_name}"
user_key(sid) == <<"voip:user", sid>>
room_key(room_name) == <<"voip:room", room_name>>

\* json.dumps / json.loads of a user record
json_dumps(user_data) == <<"{name:", user_data.name, ", room:", user_data.room, "}">>
json_loads(text) == [name |-> text[2], room |-> text[4]]

redis_get_user(db, sid) ==
    IF user_key(sid) \in DOMAIN db THEN json_loads(db[user_key(sid)]) ELSE None

\* SET; the EXPIRE that follows leaves the value as it is (no clock in this state)
redis_set_user(db, sid, user_data) == DictSet(db, user_key(sid), json_dumps(user_data))

redis_delete_user(db, sid) == DictDel(db, user_key(sid))

\* SMEMBERS: the members of the set, none for a missing key
redis_get_room(db, room_name) ==
    IF room_key(room_name) \in DOMAIN db THEN db[room_key(room_name)] ELSE {}

\* SADD creates the key when it is missing; the EXPIRE that follows leaves the set
\* as it is
redis_add_user_to_room(db, room_name, sid) ==
    DictSet(db, room_key(room_name), redis_get_room(db, room_name) \cup {sid})

\* SREM; the server drops a set key with its last member
redis_remove_user_from_room(db, room_name, sid) ==
    IF redis_get_room(db, room_name) \ {sid} = {}
    THEN DictDel(db, room_key(room_name))
    ELSE DictSet(db, room_key(room_name), redis_get_room(db, room_name) \ {sid})

\* DEL
redis_delete_room(db, room_name) == DictDel(db, room_key(room_name))

\* scan_iter("voip:user:*"), and key.split(":")[-1] of the key of a sid without ':'
redis_get_users(db) ==
    [sid \in {key[2] : key \in {k \in DOMAIN db : k[1] = "voip:user"}}
        |-> json_loads(db[user_key(sid)])]

\* scan_iter("voip:room:*"), key.split(":", 2)[-1] and list(smembers(key))
redis_get_rooms(db) ==
    [room_name \in {key[2] : key \in {k \in DOMAIN db : k[1] = "voip:room"}}
        |-> db[room_key(room_name)]]

\* expire(key, 86400)
expire(tt, key) == DictSet(tt, key, TTL)

\* the clock of the Redis server advances by one tick: the keys whose time is up go
expired(tt) == {key \in DOMAIN tt : tt[key] <= 1}

\* ------------------------------------- handlers over Redis, step by step

\* the capacity test with > for >=
redis_room_full_off_by_one(db, room, max_users) ==
    Cardinality(redis_get_room(db, room)) > max_users

\* len(storage.get_room(room)) >= max_users
redis_room_full(db, room, max_users) == Cardinality(redis_get_room(db, room)) >= max_users

\* the join handlers that passed the capacity check of room and have not inserted yet
racing(p, l, room) == {s \in Sids : p[s] \in {"j_set_user", "j_add"} /\ l[s].room = room}

Max(a, b) == IF a >= b THEN a ELSE b

\* a step of the handler of sid: from label `from` to label `to`
Goto(sid, from, to) == pc[sid] = from /\ pc' = [pc EXCEPT ![sid] = to]

r_connect(sid) ==
    /\ conn[sid] = "new"
    /\ conn' = [conn EXCEPT ![sid] = "connected"]
    /\ sent' = <<Emit("server_message", [msg |-> "Connecte au serveur"], {sid})>>
    /\ UNCHANGED <<troom, config, mvars, rvars>>

\* the 'join' event of sid is dispatched
r_join(sid, username, room) ==
    /\ conn[sid] = "connected"
    /\ Goto(sid, "idle", "j_check")
    /\ loc' = [loc EXCEPT ![sid] = [NoLocals EXCEPT !.room = room, !.username = username]]
    /\ sent' = <<>>
    /\ UNCHANGED <<conn, troom, config, mvars, redis, peak>>

\* if len(storage.get_room(room)) >= max_users: emit('error'); return
r_join_check(sid) ==
    /\ pc[sid] = "j_check"
    /\ IF redis_room_full(redis, loc[sid].room, config.max_users_per_room)
       THEN /\ pc' = [pc EXCEPT ![sid] = "idle"]
            /\ loc' = [loc EXCEPT ![sid] = NoLocals]
            /\ sent' = <<Emit("error", [msg |-> "Room pleine"], {sid})>>
            /\ peak' = peak
       ELSE /\ pc' = [pc EXCEPT ![sid] = "j_set_user"]
            /\ loc' = loc
            /\ sent' = <<>>
            /\ peak' = [peak EXCEPT ![loc[sid].room] =
                            Max(@, Cardinality(racing(pc', loc, loc[sid].room)))]
    /\ UNCHANGED <<conn, troom, config, mvars, redis>>

\* storage.set_user(sid, {'name': username, 'room': room})
r_join_set_user(sid) ==
    /\ Goto(sid, "j_set_user", "j_add")
    /\ redis' = redis_set_user(redis, sid,
                               [name |-> loc[sid].username, room |-> loc[sid].room])
    /\ sent' = <<>>
    /\ UNCHANGED <<conn, troom, config, mvars, loc, peak>>

\* join_room(room); storage.add_user_to_room(room, sid); emit('join_success')
r_join_add(sid) ==
    /\ Goto(sid, "j_add", "j_members")
    /\ troom' = join_room(troom, sid, loc[sid].room)
    /\ redis' = redis_add_user_to_room(redis, loc[sid].room, sid)
    /\ sent' = <<Emit("join_success",
                      [username |-> loc[sid].username, room |-> loc[sid].room], {sid})>>
    /\ UNCHANGED <<conn, config, mvars, loc, peak>>

\* `for s in storage.get_room(room)`: the member list the comprehension iterates
r_members(sid) ==
    /\ \/ Goto(sid, "j_members", "j_filter")
       \/ Goto(sid, "d_members", "d_filter")
    /\ loc' = [loc EXCEPT ![sid].todo = redis_get_room(redis, loc[sid].room),
                          ![sid].names = <<>>]
    /\ sent' = <<>>
    /\ UNCHANGED <<conn, troom, config, mvars, redis, peak>>

\* `if storage.get_user(s)` for the next member s, in the order SMEMBERS gave
r_filter(sid, s) ==
    /\ s \in loc[sid].todo
    /\ IF redis_get_user(redis, s) # None
       THEN /\ \/ Goto(sid, "j_filter", "j_name")
               \/ Goto(sid, "d_filter", "d_name")
            /\ loc' = [loc EXCEPT ![sid].cur = s]
       ELSE /\ pc[sid] \in {"j_filter", "d_filter"}
            /\ pc' = pc
            /\ loc' = [loc EXCEPT ![sid].todo = @ \ {s}]
    /\ sent' = <<>>
    /\ UNCHANGED <<conn, troom, config, mvars, redis, peak>>

\* `storage.get_user(s)['name']`: subscripting None raises TypeError, which ends the
\* handler; the transport still finishes a disconnect
r_name(sid) ==
    /\ pc[sid] \in {"j_name", "d_name"}
    /\ LET u == redis_get_user(redis, loc[sid].cur)
       IN  IF u # None
           THEN /\ pc' = [pc EXCEPT ![sid] = IF pc[sid] = "j_name" THEN "j_filter"
                                                                   ELSE "d_filter"]
                /\ loc' = [loc EXCEPT ![sid].todo = @ \ {loc[sid].cur},
                                      ![sid].cur = "<None>",
                                      ![sid].names = Append(@, u.name)]
                /\ UNCHANGED <<conn, troom>>
           ELSE /\ pc' = [pc EXCEPT ![sid] = "idle"]
                /\ loc' = [loc EXCEPT ![sid] = [NoLocals EXCEPT !.raised = TRUE]]
                /\ IF pc[sid] = "d_name"
                   THEN /\ conn' = [conn EXCEPT ![sid] = "disconnected"]
                        /\ troom' = [troom EXCEPT ![sid] = {}]
                   ELSE UNCHANGED <<conn, troom>>
    /\ sent' = <<>>
    /\ UNCHANGED <<config, mvars, redis, peak>>

\* join, after the comprehension: emit('user_joined', room=room, include_self=False);
\* emit('user_list')
r_join_emit(sid) ==
    /\ Goto(sid, "j_filter", "idle")
    /\ loc[sid].todo = {}
    /\ sent' = <<Emit("user_joined",
                      [username |-> loc[sid].username, users |-> loc[sid].names],
                      InRoom(troom, loc[sid].room) \ {sid}),
                 Emit("user_list", [users |-> loc[sid].names], {sid})>>
    /\ loc' = [loc EXCEPT ![sid] = NoLocals]
    /\ UNCHANGED <<conn, troom, config, mvars, redis, peak>>

\* the 'disconnect' event of sid is dispatched: its socket is closed
r_disconnect(sid) ==
    /\ conn[sid] = "connected"
    /\ Goto(sid, "idle", "d_get")
    /\ conn' = [conn EXCEPT ![sid] = "closing"]
    /\ loc' = [loc EXCEPT ![sid] = NoLocals]
    /\ sent' = <<>>
    /\ UNCHANGED <<troom, config, mvars, redis, peak>>

\* the transport forgets sid once its disconnect handler returned
Closed(sid) ==
    /\ conn' = [conn EXCEPT ![sid] = "disconnected"]
    /\ troom' = [troom EXCEPT ![sid] = {}]

\* user = storage.get_user(sid); if user: ...; room = user.get('room'); if room: ...
r_disc_get(sid) ==
    /\ pc[sid] = "d_get"
    /\ LET user == redis_get_user(redis, sid)
       IN  IF user = None
           THEN /\ pc' = [pc EXCEPT ![sid] = "idle"]
                /\ loc' = loc
                /\ Closed(sid)
           ELSE /\ pc' = [pc EXCEPT ![sid] = IF truthy(user.room) THEN "d_in_room"
                                                                 ELSE "d_del_user"]
                /\ loc' = [loc EXCEPT ![sid].room = user.room, ![sid].username = user.name]
                /\ UNCHANGED <<conn, troom>>
    /\ sent' = <<>>
    /\ UNCHANGED <<config, mvars, redis, peak>>

\* room_users = storage.get_room(room); if sid in room_users: ...
r_disc_in_room(sid) ==
    /\ pc[sid] = "d_in_room"
    /\ pc' = [pc EXCEPT ![sid] = IF sid \in redis_get_room(redis, loc[sid].room)
                                 THEN "d_remove" ELSE "d_members"]
    /\ sent' = <<>>
    /\ UNCHANGED <<conn, troom, config, mvars, redis, loc, peak>>

\* storage.remove_user_from_room(room, sid)
r_disc_remove(sid) ==
    /\ Goto(sid, "d_remove", "d_members")
    /\ redis' = redis_remove_user_from_room(redis, loc[sid].room, sid)
    /\ sent' = <<>>
    /\ UNCHANGED <<conn, troom, config, mvars, loc, peak>>

\* disconnect, after the comprehension: emit('user_left', room=room)
r_disc_emit(sid) ==
    /\ Goto(sid, "d_filter", "d_empty")
    /\ loc[sid].todo = {}
    /\ sent' = <<Emit("user_left",
                      [username |-> loc[sid].username, users |-> loc[sid].names],
                      InRoom(troom, loc[sid].room))>>
    /\ UNCHANGED <<conn, troom, config, mvars, redis, loc, peak>>

\* if not storage.get_room(room):
r_disc_empty(sid) ==
    /\ pc[sid] = "d_empty"
    /\ pc' = [pc EXCEPT ![sid] = IF redis_get_room(redis, loc[sid].room) = {}
                                 THEN "d_del_room" ELSE "d_del_user"]
    /\ sent' = <<>>
    /\ UNCHANGED <<conn, troom, config, mvars, redis, loc, peak>>

\* storage.delete_room(room)
r_disc_del_room(sid) ==
    /\ Goto(sid, "d_del_room", "d_del_user")
    /\ redis' = redis_delete_room(redis, loc[sid].room)
    /\ sent' = <<>>
    /\ UNCHANGED <<conn, troom, config, mvars, loc, peak>>

\* storage.delete_user(sid); the handler returns
r_disc_del_user(sid) ==
    /\ Goto(sid, "d_del_user", "idle")
    /\ redis' = redis_delete_user(redis, sid)
    /\ loc' = [loc EXCEPT ![sid] = NoLocals]
    /\ Closed(sid)
    /\ sent' = <<>>
    /\ UNCHANGED <<config, mvars, peak>>

InitRedis ==
    /\ RedisInit
    /\ storage = "RedisStorage"
    /\ env = [redis_enabled |-> TRUE, redis_up |-> TRUE]
    /\ ret = None
    /\ ttl = EmptyDict
    /\ users = EmptyDict
    /\ rooms = EmptyDict
    /\ conn = [s \in Sids |-> "new"]
    /\ troom = [s \in Sids |-> {}]
    /\ config \in [max_users_per_room : 1..MaxCap, max_message_length : {MaxLen},
                   audio_calls : {TRUE}, video_calls : {TRUE}]
    /\ last = NoRequest
    /\ sent = <<>>

\* the sessions whose handlers interleave
RedisSids == {"s1", "s2"}

NextRedis ==
    \E sid \in RedisSids :
        \/ r_connect(sid)
        \/ \E username \in UserNames(sid), room \in RoomNames : r_join(sid, username, room)
        \/ r_join_check(sid)
        \/ r_join_set_user(sid)
        \/ r_join_add(sid)
        \/ r_members(sid)
        \/ \E s \in Sids : r_filter(sid, s)
        \/ r_name(sid)
        \/ r_join_emit(sid)
        \/ r_disconnect(sid)
        \/ r_disc_get(sid)
        \/ r_disc_in_room(sid)
        \/ r_disc_remove(sid)
        \/ r_disc_emit(sid)
        \/ r_disc_empty(sid)
        \/ r_disc_del_room(sid)
        \/ r_disc_del_user(sid)

SpecRedis == InitRedis /\ [][NextRedis]_vars

\* the steps of the handlers that write to Redis
WriteSteps == {"j_set_user", "j_add", "d_remove", "d_del_room", "d_del_user"}

\* the Redis call the handler of sid is about to make raises (the server is gone, a
\* timeout): no handler catches it, so the handler ends there; the transport still
\* finishes a disconnect. One call fails in a run.
r_raise(sid) ==
    /\ pc[sid] \in WriteSteps
    /\ last = NoRequest
    /\ last' = Request("ConnectionError", sid, [at |-> pc[sid]])
    /\ pc' = [pc EXCEPT ![sid] = "idle"]
    /\ loc' = [loc EXCEPT ![sid] = [NoLocals EXCEPT !.raised = TRUE]]
    /\ IF pc[sid] \in {"d_remove", "d_del_room", "d_del_user"}
       THEN Closed(sid)
       ELSE UNCHANGED <<conn, troom>>
    /\ sent' = <<>>
    /\ UNCHANGED <<users, rooms, svars, config, redis, peak>>

NextFault ==
    \/ NextRedis
    \/ \E sid \in RedisSids : r_raise(sid)

\* the handlers over RedisStorage, with one failing Redis call
SpecFault == InitRedis /\ [][NextFault]_vars

\* --------------------------------------------- the storage module on its own

\* config redis.enabled, and whether the server behind it answers
Envs == [redis_enabled : BOOLEAN, redis_up : BOOLEAN]
\* the sid arguments of the calls
StorageSids == {"s1", "s2"}
\* the user_data arguments of set_user
UserData == {[name |-> "Alice", room |-> "lobby"], [name |-> "Bob", room |-> "den"]}

\* RedisStorage.__init__: the instance, or the ConnectionError it raises when the
\* import or the ping fails
RedisStorage_init(e) == IF e.redis_up THEN "RedisStorage" ELSE "ConnectionError"

\* a get_storage that lets the ConnectionError through: no instance is made
new_storage_no_fallback(e) ==
    IF e.redis_enabled
    THEN IF RedisStorage_init(e) = "ConnectionError" THEN "None" ELSE "RedisStorage"
    ELSE "MemoryStorage"

\* get_storage, the instance it makes when _storage is None
new_storage(e) ==
    IF e.redis_enabled
    THEN IF RedisStorage_init(e) = "ConnectionError" THEN "MemoryStorage" ELSE "RedisStorage"
    ELSE "MemoryStorage"

\* what a call on the storage module leaves alone besides the two backends
tvars == <<conn, troom, config, sent, pc, loc, peak, env, cfgs, heap>>

get_storage ==
    /\ last' = Request("get_storage", NoSid, [none |-> TRUE])
    /\ storage' = IF storage = "None" THEN new_storage(env) ELSE storage
    /\ ret' = storage'
    /\ UNCHANGED <<users, rooms, redis, ttl, tvars>>

reset_storage ==
    /\ storage # "None"
    /\ last' = Request("reset_storage", NoSid, [none |-> TRUE])
    /\ storage' = "None"
    /\ ret' = None
    /\ UNCHANGED <<users, rooms, redis, ttl, tvars>>

call_get_users ==
    /\ storage # "None"
    /\ last' = Request("get_users", NoSid, [none |-> TRUE])
    /\ ret' = IF storage = "MemoryStorage" THEN get_users(users) ELSE redis_get_users(redis)
    /\ UNCHANGED <<users, rooms, redis, ttl, storage, tvars>>

call_get_user(sid) ==
    /\ storage # "None"
    /\ last' = Request("get_user", sid, [none |-> TRUE])
    /\ ret' = IF storage = "MemoryStorage" THEN get_user(users, sid)
                                          ELSE redis_get_user(redis, sid)
    /\ UNCHANGED <<users, rooms, redis, ttl, storage, tvars>>

call_set_user(sid, user_data) ==
    /\ storage # "None"
    /\ last' = Request("set_user", sid, user_data)
    /\ IF storage = "MemoryStorage"
       THEN /\ users' = set_user(users, sid, user_data)
            /\ UNCHANGED <<redis, ttl>>
       ELSE /\ redis' = redis_set_user(redis, sid, user_data)
            /\ ttl' = expire(ttl, user_key(sid))
            /\ users' = users
    /\ ret' = None
    /\ UNCHANGED <<rooms, storage, tvars>>

call_delete_user(sid) ==
    /\ storage # "None"
    /\ last' = Request("delete_user", sid, [none |-> TRUE])
    /\ IF storage = "MemoryStorage"
       THEN /\ users' = delete_user(users, sid)
            /\ UNCHANGED <<redis, ttl>>
       ELSE /\ redis' = redis_delete_user(redis, sid)
            /\ ttl' = DictDel(ttl, user_key(sid))
            /\ users' = users
    /\ ret' = None
    /\ UNCHANGED <<rooms, storage, tvars>>

call_get_rooms ==
    /\ storage # "None"
    /\ last' = Request("get_rooms", NoSid, [none |-> TRUE])
    /\ ret' = IF storage = "MemoryStorage" THEN get_rooms(rooms) ELSE redis_get_rooms(redis)
    /\ UNCHANGED <<users, rooms, redis, ttl, storage, tvars>>

call_get_room(room_name) ==
    /\ storage # "None"
    /\ last' = Request("get_room", NoSid, [room |-> room_name])
    /\ ret' = IF storage = "MemoryStorage" THEN get_room(rooms, room_name)
                                          ELSE redis_get_room(redis, room_name)
    /\ UNCHANGED <<users, rooms, redis, ttl, storage, tvars>>

call_add_user_to_room(room_name, sid) ==
    /\ storage # "None"
    /\ last' = Request("add_user_to_room", sid, [room |-> room_name])
    /\ IF storage = "MemoryStorage"
       THEN /\ rooms' = add_user_to_room(rooms, room_name, sid)
            /\ UNCHANGED <<redis, ttl>>
       ELSE /\ redis' = redis_add_user_to_room(redis, room_name, sid)
            /\ ttl' = expire(ttl, room_key(room_name))
            /\ rooms' = rooms
    /\ ret' = None
    /\ UNCHANGED <<users, storage, tvars>>

\* SREM is the only command: the key keeps the time it had, or goes with its set
call_remove_user_from_room(room_name, sid) ==
    /\ storage # "None"
    /\ last' = Request("remove_user_from_room", sid, [room |-> room_name])
    /\ IF storage = "MemoryStorage"
       THEN /\ rooms' = remove_user_from_room(rooms, room_name, sid)
            /\ UNCHANGED <<redis, ttl>>
       ELSE /\ redis' = redis_remove_user_from_room(redis, room_name, sid)
            /\ ttl' = IF room_key(room_name) \in DOMAIN redis'
                      THEN ttl ELSE DictDel(ttl, room_key(room_name))
            /\ rooms' = rooms
    /\ ret' = None
    /\ UNCHANGED <<users, storage, tvars>>

call_delete_room(room_name) ==
    /\ storage # "None"
    /\ last' = Request("delete_room", NoSid, [room |-> room_name])
    /\ IF storage = "MemoryStorage"
       THEN /\ rooms' = delete_room(rooms, room_name)
            /\ UNCHANGED <<redis, ttl>>
       ELSE /\ redis' = redis_delete_room(redis, room_name)
            /\ ttl' = DictDel(ttl, room_key(room_name))
            /\ rooms' = rooms
    /\ ret' = None
    /\ UNCHANGED <<users, storage, tvars>>

\* a tick of the clock of the Redis server: every key with an expiry has one tick
\* less to live, and the keys whose time is up are gone
tick ==
    /\ ttl # EmptyDict
    /\ last' = Request("tick", NoSid, [none |-> TRUE])
    /\ redis' = [key \in (DOMAIN redis) \ expired(ttl) |-> redis[key]]
    /\ ttl' = [key \in (DOMAIN ttl) \ expired(ttl) |-> ttl[key] - 1]
    /\ ret' = None
    /\ UNCHANGED <<users, rooms, storage, tvars>>

\* the module is imported: no instance yet, both backends empty
InitStorage ==
    /\ RedisInit
    /\ storage = "None"
    /\ env \in Envs
    /\ ret = None
    /\ ttl = EmptyDict
    /\ users = EmptyDict
    /\ rooms = EmptyDict
    /\ conn = [s \in Sids |-> "new"]
    /\ troom = [s \in Sids |-> {}]
    /\ config \in [max_users_per_room : {MaxCap}, max_message_length : {MaxLen},
                   audio_calls : {TRUE}, video_calls : {TRUE}]
    /\ last = NoRequest
    /\ sent = <<>>

NextStorage ==
    \/ get_storage
    \/ reset_storage
    \/ call_get_users
    \/ call_get_rooms
    \/ tick
    \/ \E sid \in StorageSids :
        \/ call_get_user(sid)
        \/ \E user_data \in UserData : call_set_user(sid, user_data)
        \/ call_delete_user(sid)
        \/ \E room_name \in RoomNames :
            \/ call_add_user_to_room(room_name, sid)
            \/ call_remove_user_from_room(room_name, sid)
    \/ \E room_name \in RoomNames :
        \/ call_get_room(room_name)
        \/ call_delete_room(room_name)

SpecStorage == InitStorage /\ [][NextStorage]_vars

\* a RedisStorage is in use
InitExpiry ==
    /\ InitRedis
    /\ config.max_users_per_room = MaxCap

\* the writes of the server's handlers, and the clock
NextExpiry ==
    \/ tick
    \/ \E sid \in StorageSids :
        \/ \E user_data \in UserData : call_set_user(sid, user_data)
        \/ call_delete_user(sid)
        \/ \E room_name \in RoomNames :
            \/ call_add_user_to_room(room_name, sid)
            \/ call_remove_user_from_room(room_name, sid)
    \/ \E room_name \in RoomNames : call_delete_room(room_name)

\* the writes to a RedisStorage, with a clock that does not stop
SpecExpiry == InitExpiry /\ [][NextExpiry]_vars /\ WF_vars(tick)

\* ------------------------------------- the two backends, call for call

\* a MemoryStorage() and a RedisStorage() receive the same calls; a read returns the
\* answer of each
Both(memory, redis_answer) == [memory |-> memory, redis |-> redis_answer]

both_set_user(sid, user_data) ==
    /\ last' = Request("set_user", sid, user_data)
    /\ users' = set_user(users, sid, user_data)
    /\ redis' = redis_set_user(redis, sid, user_data)
    /\ ttl' = expire(ttl, user_key(sid))
    /\ ret' = None
    /\ UNCHANGED <<rooms, storage, tvars>>

both_delete_user(sid) ==
    /\ last' = Request("delete_user", sid, [none |-> TRUE])
    /\ users' = delete_user(users, sid)
    /\ redis' = redis_delete_user(redis, sid)
    /\ ttl' = DictDel(ttl, user_key(sid))
    /\ ret' = None
    /\ UNCHANGED <<rooms, storage, tvars>>

both_add_user_to_room(room_name, sid) ==
    /\ last' = Request("add_user_to_room", sid, [room |-> room_name])
    /\ rooms' = add_user_to_room(rooms, room_name, sid)
    /\ redis' = redis_add_user_to_room(redis, room_name, sid)
    /\ ttl' = expire(ttl, room_key(room_name))
    /\ ret' = None
    /\ UNCHANGED <<users, storage, tvars>>

both_remove_user_from_room(room_name, sid) ==
    /\ last' = Request("remove_user_from_room", sid, [room |-> room_name])
    /\ rooms' = remove_user_from_room(rooms, room_name, sid)
    /\ redis' = redis_remove_user_from_room(redis, room_name, sid)
    /\ ttl' = IF room_key(room_name) \in DOMAIN redis'
              THEN ttl ELSE DictDel(ttl, room_key(room_name))
    /\ ret' = None
    /\ UNCHANGED <<users, storage, tvars>>

both_delete_room(room_name) ==
    /\ last' = Request("delete_room", NoSid, [room |-> room_name])
    /\ rooms' = delete_room(rooms, room_name)
    /\ redis' = redis_delete_room(redis, room_name)
    /\ ttl' = DictDel(ttl, room_key(room_name))
    /\ ret' = None
    /\ UNCHANGED <<users, storage, tvars>>

both_get_user(sid) ==
    /\ last' = Request("get_user", sid, [none |-> TRUE])
    /\ ret' = Both(get_user(users, sid), redis_get_user(redis, sid))
    /\ UNCHANGED <<users, rooms, redis, ttl, storage, tvars>>

both_get_users ==
    /\ last' = Request("get_users", NoSid, [none |-> TRUE])
    /\ ret' = Both(get_users(users), redis_get_users(redis))
    /\ UNCHANGED <<users, rooms, redis, ttl, storage, tvars>>

both_get_room(room_name) ==
    /\ last' = Request("get_room", NoSid, [room |-> room_name])
    /\ ret' = Both(get_room(rooms, room_name), redis_get_room(redis, room_name))
    /\ UNCHANGED <<users, rooms, redis, ttl, storage, tvars>>

both_get_rooms ==
    /\ last' = Request("get_rooms", NoSid, [none |-> TRUE])
    /\ ret' = Both(get_rooms(rooms), redis_get_rooms(redis))
    /\ UNCHANGED <<users, rooms, redis, ttl, storage, tvars>>

\* both instances are constructed, the Redis server answers, both are empty
InitBoth ==
    /\ InitStorage
    /\ env = [redis_enabled |-> TRUE, redis_up |-> TRUE]

NextBoth ==
    \/ both_get_users
    \/ both_get_rooms
    \/ \E sid \in StorageSids :
        \/ both_get_user(sid)
        \/ \E user_data \in UserData : both_set_user(sid, user_data)
        \/ both_delete_user(sid)
        \/ \E room_name \in RoomNames :
            \/ both_add_user_to_room(room_name, sid)
            \/ both_remove_user_from_room(room_name, sid)
    \/ \E room_name \in RoomNames :
        \/ both_get_room(room_name)
        \/ both_delete_room(room_name)

\* a MemoryStorage and a RedisStorage driven by the same sequence of calls
SpecBoth == InitBoth /\ [][NextBoth]_vars

\* ------------------------------------------------------------ Config objects

\* the (section, key, value) arguments of set and of the one-entry update of
\* _merge_config
Settings ==
    {<<"server", "port", 8080>>, <<"features", "audio_calls", FALSE>>,
     <<"limits", "max_users_per_room", 10>>, <<"custom", "key", "value">>}

\* dict.copy(): a new dict whose values are the same objects
copy(d) == [section \in DOMAIN d |-> d[section]]

\* Config.get(section, key)
config_get(cf, hp, c, section, key) ==
    IF section \in DOMAIN cf[c] /\ key \in DOMAIN hp[cf[c][section]]
    THEN hp[cf[c][section]][key]
    ELSE Missing

\* c = Config(): __init__ with no file and no VOIP_* variable in the environment;
\* the section objects only the Config c was bound to before are garbage
Config(c) ==
    /\ last' = Request("Config", c, [none |-> TRUE])
    /\ cfgs' = [cfgs EXCEPT ![c] = copy(DEFAULT_CONFIG)]
    /\ heap' = [obj \in {o \in DOMAIN heap : o[1] # c} |-> heap[obj]]
    /\ UNCHANGED <<users, rooms, conn, troom, config, sent, redis, pc, loc, peak,
                   storage, env, ret, ttl>>

\* Config.set(section, key, value=value)
config_set(c, section, key, value) ==
    /\ cfgs[c] # NoConfig
    /\ last' = Request("set", c, [section |-> section, key |-> key, value |-> value])
    /\ LET cf1 == IF section \in DOMAIN cfgs[c] THEN cfgs[c]
                                                ELSE DictSet(cfgs[c], section, <<c, section>>)
           hp1 == IF section \in DOMAIN cfgs[c] THEN heap
                                                ELSE DictSet(heap, <<c, section>>, EmptyDict)
       IN  /\ cfgs' = [cfgs EXCEPT ![c] = cf1]
           /\ heap' = DictSet(hp1, cf1[section], DictSet(hp1[cf1[section]], key, value))
    /\ UNCHANGED <<users, rooms, conn, troom, config, sent, redis, pc, loc, peak,
                   storage, env, ret, ttl>>

\* Config._merge_config(self.config, {section: {key: value}})
merge_config(c, section, key, value) ==
    /\ cfgs[c] # NoConfig
    /\ last' = Request("_merge_config", c,
                       [section |-> section, key |-> key, value |-> value])
    /\ IF section \in DOMAIN cfgs[c]
       THEN /\ cfgs' = cfgs
            /\ heap' = DictSet(heap, cfgs[c][section],
                               DictSet(heap[cfgs[c][section]], key, value))
       ELSE /\ cfgs' = [cfgs EXCEPT ![c] = DictSet(cfgs[c], section, <<c, section>>)]
            /\ heap' = DictSet(heap, <<c, section>>, DictSet(EmptyDict, key, value))
    /\ UNCHANGED <<users, rooms, conn, troom, config, sent, redis, pc, loc, peak,
                   storage, env, ret, ttl>>

NextConfig ==
    \E c \in Instances :
        \/ Config(c)
        \/ \E s \in Settings : config_set(c, s[1], s[2], s[3])
        \/ \E s \in Settings : merge_config(c, s[1], s[2], s[3])

\* the module is imported: DEFAULT_CONFIG is as written, no Config exists
InitConfig ==
    /\ InitStorage
    /\ env = [redis_enabled |-> FALSE, redis_up |-> FALSE]

SpecConfig == InitConfig /\ [][NextConfig]_vars

\* ================================================================ claims

\* ---- shared vocabulary of the claims

\* s is in the member list of room R
IsMember(s, R) == InList(get_room(rooms, R), s)

\* s has a session record
HasRecord(s) == get_user(users, s) # None

\* the events that are relayed to one named peer
UnicastEvents == {"incoming_call", "call_accepted", "call_rejected", "webrtc_signal",
                  "call_ended"}

\* the requests that name a peer, and the name they carry
RelayRequests == {"call_user", "call_answer", "webrtc_signal", "hangup"}
RequestedName(req) == IF req.ev = "call_answer" THEN req.data.caller ELSE req.data.target

\* no member of the room of sid has a record with display name `name`
NoMemberNamed(us, rs, sid, name) ==
    \A i \in 1..Len(get_room(rs, us[sid].room)) :
        LET m == get_room(rs, us[sid].room)[i]
        IN  m \notin DOMAIN us \/ us[m].name # name

\* the request asks for a call type whose feature flag is off
FeatureDisabled(req) ==
    /\ req.ev = "call_user"
    /\ \/ req.data.call_type = "audio" /\ ~config.audio_calls
       \/ req.data.call_type = "video" /\ ~config.video_calls

\* ---- C1
\* C1: membership consistency: for every session s and room R, the record of s has
\* room = R exactly when s is in the member list of R.
C1_MembershipConsistency ==
    \A s \in Sids, R \in RoomNames :
        (HasRecord(s) /\ get_user(users, s).room = R) <=> IsMember(s, R)

\* ---- C2
\* C2: once the disconnect handler of s has completed, s has no record and is in no
\* room's member list.
C2_DisconnectedIsGone ==
    \A s \in Sids :
        conn[s] = "disconnected" =>
            /\ ~HasRecord(s)
            /\ \A R \in RoomNames : ~IsMember(s, R)

\* ---- C3
\* C3: a room is a key of the registry exactly when its member list is non-empty.
C3_KeyIffNonEmpty ==
    \A R \in RoomNames : (R \in DOMAIN rooms) <=> (get_room(rooms, R) # <<>>)

\* C3: a room whose members have all disconnected is no longer a key.
C3_LastMemberGoneRoomGone ==
    \A R \in DOMAIN rooms : \E s \in Sids : IsMember(s, R) /\ conn[s] # "disconnected"

\* C3: the room existence invariant, with its consequence for the last member.
C3_RoomExistence == C3_KeyIffNonEmpty /\ C3_LastMemberGoneRoomGone

\* ---- C4
\* C4: every session is in the member list of at most one room.
C4_AtMostOneRoom ==
    \A s \in Sids : Cardinality({R \in RoomNames : IsMember(s, R)}) <= 1

\* ---- C5
\* C5: a join on a room whose size equals max_users_per_room emits one error event,
\* to the sender only, and leaves the session registry, the member lists and the
\* transport rooms as they were.
C5_FullRoomJoinRejected ==
    [][ (/\ last'.ev = "join"
         /\ Len(get_room(rooms, last'.data.room)) = config.max_users_per_room)
        => (/\ sent' = <<Emit("error", [msg |-> "Room pleine"], {last'.sid})>>
            /\ users' = users
            /\ rooms' = rooms
            /\ troom' = troom) ]_vars

\* C5 witness: a session that has a record in another room was refused a full room.
C5_Witness ==
    /\ last.ev = "join"
    /\ Len(get_room(rooms, last.data.room)) = config.max_users_per_room
    /\ sent = <<Emit("error", [msg |-> "Room pleine"], {last.sid})>>
    /\ HasRecord(last.sid)
    /\ get_user(users, last.sid).room # last.data.room

\* ---- C6
\* C6: a room holds at most max_users_per_room - 1 members plus the most join
\* handlers that ever stood together between their check and their insert: joins
\* that do not race respect the capacity, k racing joins exceed it by less than k.
C6_CapacityRaceBound ==
    \A R \in RoomNames :
        /\ peak[R] = 0 => redis_get_room(redis, R) = {}
        /\ peak[R] >= 1 =>
               Cardinality(redis_get_room(redis, R)) <= config.max_users_per_room - 1 + peak[R]

\* C6 witness: two joins raced and the room holds more members than its capacity.
C6_Witness ==
    \E R \in RoomNames :
        /\ peak[R] = 2
        /\ Cardinality(redis_get_room(redis, R)) > config.max_users_per_room
        /\ \A s \in RedisSids : pc[s] = "idle"

\* ---- C7
\* C7: a session whose join to R has completed and that has not disconnected is in
\* the member set of R, under every interleaving of the storage operations.
C7_JoinedStaysMember ==
    \A s \in RedisSids :
        (/\ pc[s] = "idle"
         /\ conn[s] = "connected"
         /\ redis_get_user(redis, s) # None)
        => s \in redis_get_room(redis, redis_get_user(redis, s).room)

C9_UnicastIsolation ==
    \A i \in 1..Len(sent) :
        sent[i].ev \in UnicastEvents =>
            \A t \in sent[i].to :
                HasRecord(t) /\ get_user(users, t).room = get_user(users, last.sid).room

\* ---- C10
\* C10 as stated: a relay request of a joined session that names no member of its room
\* emits nothing and changes no session or room state.
C10_RoutingMissSilent ==
    [][ (/\ last'.ev \in RelayRequests
         /\ last'.sid \in DOMAIN users
         /\ NoMemberNamed(users, rooms, last'.sid, RequestedName(last')))
        => (sent' = <<>> /\ users' = users /\ rooms' = rooms) ]_vars

\* C10 amended: the same, except for a call_user whose call type is a disabled
\* feature, which is answered with the error event before the lookup.
C10_RoutingMissSilentUnlessDisabled ==
    [][ (/\ last'.ev \in RelayRequests
         /\ last'.sid \in DOMAIN users
         /\ NoMemberNamed(users, rooms, last'.sid, RequestedName(last'))
         /\ ~FeatureDisabled(last'))
        => (sent' = <<>> /\ users' = users /\ rooms' = rooms) ]_vars

\* C10 witness: a joined session called a name nobody in its room has; nothing was sent.
C10_Witness ==
    /\ last.ev = "call_user"
    /\ HasRecord(last.sid)
    /\ Len(get_room(rooms, get_user(users, last.sid).room)) >= 2
    /\ NoMemberNamed(users, rooms, last.sid, last.data.target)
    /\ sent = <<>>

\* ---- C11
\* the error event handle_call answers a disabled call type with
DisabledError(req) ==
    Emit("error",
         [msg |-> IF req.data.call_type = "audio" THEN "Appels audio desactives"
                                                  ELSE "Appels video desactives"],
         {req.sid})

\* C11 as stated: every call_user for a disabled call type emits one error event, to
\* the sender only, and changes no state.
C11_DisabledCallRejected ==
    [][ (last'.ev = "call_user" /\ FeatureDisabled(last'))
        => (/\ sent' = <<DisabledError(last')>>
            /\ users' = users /\ rooms' = rooms /\ troom' = troom) ]_vars

\* C11 amended: the same for a call_user of a joined session (one with a record); a
\* session without a record gets no answer at all.
C11_DisabledCallRejectedWhenJoined ==
    [][ (last'.ev = "call_user" /\ FeatureDisabled(last'))
        => (/\ sent' = IF last'.sid \in DOMAIN users THEN <<DisabledError(last')>> ELSE <<>>
            /\ users' = users /\ rooms' = rooms /\ troom' = troom) ]_vars

\* C11 witness: a joined session called, with a disabled call type, a name that
\* another member of its room has, and got the error.
C11_Witness ==
    /\ last.ev = "call_user"
    /\ FeatureDisabled(last)
    /\ HasRecord(last.sid)
    /\ \E t \in Sids \ {last.sid} :
           /\ IsMember(t, get_user(users, last.sid).room)
           /\ HasRecord(t)
           /\ get_user(users, t).name = last.data.target
    /\ sent = <<DisabledError(last)>>

\* ---- C12
\* C12: an incoming_call is delivered only for call_type 'audio' with audio_calls on
\* or call_type 'video' with video_calls on.
C12_IncomingCallOnlyEnabledType ==
    \A i \in 1..Len(sent) :
        (sent[i].ev = "incoming_call" /\ sent[i].to # {})
        => \/ last.data.call_type = "audio" /\ config.audio_calls
           \/ last.data.call_type = "video" /\ config.video_calls

\* ---- C13
\* C13: a text_message of a joined session is broadcast when the message is at most
\* max_message_length long, the limit included; a longer one is answered with one
\* error event to the sender and no text_message is delivered.
C13_MessageLengthBoundary ==
    (last.ev = "text_message" /\ HasRecord(last.sid))
    => IF Len(last.data.message) <= config.max_message_length
       THEN /\ Len(sent) = 1
            /\ sent[1].ev = "text_message"
            /\ sent[1].data.message = last.data.message
            /\ last.sid \in sent[1].to
       ELSE sent = <<Emit("error", [msg |-> "Message trop long"], {last.sid})>>

\* C13 witness: a message of exactly max_message_length characters was broadcast.
C13_Witness ==
    /\ last.ev = "text_message"
    /\ HasRecord(last.sid)
    /\ Len(last.data.message) = config.max_message_length
    /\ Len(sent) = 1
    /\ sent[1].ev = "text_message"
    /\ last.sid \in sent[1].to

\* ---- C14
\* C14: an accepted text_message of a joined session A is one event, delivered once to
\* every connected member of A's room, A included, with username A's stored name
\* and message the text sent.
C14_TextBroadcast ==
    (/\ last.ev = "text_message"
     /\ HasRecord(last.sid)
     /\ Len(last.data.message) <= config.max_message_length)
    => /\ Len(sent) = 1
       /\ sent[1].ev = "text_message"
       /\ sent[1].data.username = get_user(users, last.sid).name
       /\ sent[1].data.message = last.data.message
       /\ IsMember(last.sid, get_user(users, last.sid).room)
       /\ \A t \in Sids :
              (conn[t] = "connected" /\ IsMember(t, get_user(users, last.sid).room))
              => t \in sent[1].to

\* C14 witness: a non-empty message was delivered to the sender and to another member
\* of its room.
C14_Witness ==
    /\ last.ev = "text_message"
    /\ HasRecord(last.sid)
    /\ last.data.message # <<>>
    /\ Len(sent) = 1
    /\ sent[1].ev = "text_message"
    /\ \E t \in Sids \ {last.sid} :
           /\ IsMember(t, get_user(users, last.sid).room)
           /\ {t, last.sid} \subseteq sent[1].to

\* ---- C15
\* the elements of a list, as a set
Range(list) == {list[i] : i \in 1..Len(list)}

\* the step is the join of B into room R, where A, with another name, was the only
\* member: after it the member list of R is A, B
SecondJoin(A, B, R) ==
    /\ A # B
    /\ last'.ev = "join" /\ last'.sid = B /\ last'.data.room = R
    /\ get_room(rooms, R) = <<A>>
    /\ get_room(rooms', R) = <<A, B>>
    /\ HasRecord(A) /\ get_user(users, A).room = R
    /\ get_user(users, A).name # last'.data.username

\* the names of A and of B after the join of B
BothNames(A, B) == {get_user(users', A).name, get_user(users', B).name}

\* C15 as stated: when B has joined the room A is in, A and B have each been sent a
\* user_list whose users are the two names.
C15_BothGetUserList ==
    [][ \A A, B \in Sids : \A R \in RoomNames :
            SecondJoin(A, B, R)
            => \A t \in {A, B} :
                   \E i \in 1..Len(sent') :
                       /\ sent'[i].ev = "user_list"
                       /\ t \in sent'[i].to
                       /\ Range(sent'[i].data.users) = BothNames(A, B) ]_vars

\* C15 amended: the join of B sends user_list with the two names to B alone; A is
\* sent user_joined, with username B's name and users the two names.
C15_JoinerGetsListOtherGetsJoined ==
    [][ \A A, B \in Sids : \A R \in RoomNames :
            SecondJoin(A, B, R)
            => /\ Len(sent') = 3
               /\ sent'[2].ev = "user_joined"
               /\ sent'[2].to = {A}
               /\ sent'[2].data.username = get_user(users', B).name
               /\ Range(sent'[2].data.users) = BothNames(A, B)
               /\ sent'[3].ev = "user_list"
               /\ sent'[3].to = {B}
               /\ Range(sent'[3].data.users) = BothNames(A, B)
               /\ \A i \in 1..Len(sent') : sent'[i].ev = "user_list" => A \notin sent'[i].to
       ]_vars

\* C15 witness: B has joined the room of A, the two have different names, and the
\* handler has sent user_joined to A and user_list to B.
C15_Witness ==
    \E A, B \in Sids : \E R \in RoomNames :
        /\ A # B
        /\ last.ev = "join" /\ last.sid = B /\ last.data.room = R
        /\ get_room(rooms, R) = <<A, B>>
        /\ HasRecord(A) /\ get_user(users, A).room = R
        /\ get_user(users, A).name # get_user(users, B).name
        /\ Len(sent) = 3
        /\ sent[2].to = {A}
        /\ sent[3].ev = "user_list" /\ sent[3].to = {B}
        /\ sent[3].data.users = <<get_user(users, A).name, get_user(users, B).name>>

\* ---- C16
\* the call type of the request is 'audio' or 'video' and its feature flag is on
FeatureEnabled(req) ==
    \/ req.data.call_type = "audio" /\ config.audio_calls
    \/ req.data.call_type = "video" /\ config.video_calls

\* t is a member of the room of s whose record carries the name
MemberNamed(s, t, name) ==
    /\ IsMember(t, get_user(users, s).room)
    /\ HasRecord(t)
    /\ get_user(users, t).name = name

\* C16: a call_user of a joined session A with an enabled call type, whose target is
\* not A's own name and is the name of a member of A's room, sends exactly one event:
\* incoming_call{caller: A's name, call_type}, to one such member B alone.
C16_CallUnicast ==
    (/\ last.ev = "call_user"
     /\ HasRecord(last.sid)
     /\ FeatureEnabled(last)
     /\ last.data.target # get_user(users, last.sid).name
     /\ \E t \in Sids : MemberNamed(last.sid, t, last.data.target))
    => /\ Len(sent) = 1
       /\ sent[1].ev = "incoming_call"
       /\ sent[1].data = [caller |-> get_user(users, last.sid).name,
                          call_type |-> last.data.call_type]
       /\ \E B \in Sids \ {last.sid} :
              /\ MemberNamed(last.sid, B, last.data.target)
              /\ sent[1].to = {B}

\* C16 witness: all sessions are connected and joined, and one of them has called
\* another member of its room by its name with an enabled call type; the
\* incoming_call went to that session alone.
C16_Witness ==
    /\ last.ev = "call_user"
    /\ FeatureEnabled(last)
    /\ \A t \in Sids : conn[t] = "connected" /\ HasRecord(t)
    /\ last.data.target # get_user(users, last.sid).name
    /\ Len(sent) = 1
    /\ sent[1].ev = "incoming_call"
    /\ \E B \in Sids \ {last.sid} :
           MemberNamed(last.sid, B, last.data.target) /\ sent[1].to = {B}

\* ---- C17
\* C17: a webrtc_signal of a joined session whose target is the name of a member of
\* its room sends exactly one event, webrtc_signal, to one such member alone, with
\* sender the stored name of the sending session and signal the payload received.
C17_SignalOpaque ==
    (/\ last.ev = "webrtc_signal"
     /\ HasRecord(last.sid)
     /\ \E t \in Sids : MemberNamed(last.sid, t, last.data.target))
    => /\ Len(sent) = 1
       /\ sent[1].ev = "webrtc_signal"
       /\ sent[1].data = [sender |-> get_user(users, last.sid).name,
                          signal |-> last.data.signal]
       /\ \E t \in Sids : MemberNamed(last.sid, t, last.data.target) /\ sent[1].to = {t}

\* C17 witness: a 'candidate' signal was relayed to another session.
C17_Witness ==
    /\ last.ev = "webrtc_signal"
    /\ HasRecord(last.sid)
    /\ last.data.signal = "candidate"
    /\ Len(sent) = 1
    /\ sent[1].data.signal = "candidate"
    /\ \E t \in Sids \ {last.sid} : sent[1].to = {t}

\* ---- C18
\* C18: the disconnect of a session without a record changes neither the registry nor
\* any room and emits nothing; and after any disconnect, the handler run again for
\* the same session changes neither the registry nor any room and emits nothing.
C18_DisconnectIdempotent ==
    [][ last'.ev = "disconnect"
        => /\ last'.sid \notin DOMAIN users
              => (users' = users /\ rooms' = rooms /\ sent' = <<>>)
           /\ disconnect_users(users', last'.sid) = users'
           /\ disconnect_rooms(users', rooms', last'.sid) = rooms'
           /\ disconnect_sent(users', rooms', troom', last'.sid) = <<>> ]_vars

\* C18 witness: a joined session has disconnected, its room told another member, and
\* its record is gone.
C18_Witness ==
    /\ last.ev = "disconnect"
    /\ ~HasRecord(last.sid)
    /\ Len(sent) = 1
    /\ sent[1].ev = "user_left"
    /\ sent[1].to # {}

\* ---- C19
\* the backend in use holds a record for sid
UserKnown(sid) ==
    IF storage = "MemoryStorage" THEN sid \in DOMAIN users
                                 ELSE user_key(sid) \in DOMAIN redis

\* the backend in use holds the room
RoomKnown(room_name) ==
    IF storage = "MemoryStorage" THEN room_name \in DOMAIN rooms
                                 ELSE room_key(room_name) \in DOMAIN redis

\* the members the backend in use holds for the room
RoomMembers(room_name) ==
    IF storage = "MemoryStorage" THEN Range(get_room(rooms, room_name))
                                 ELSE redis_get_room(redis, room_name)

\* C19: get_user of an unknown sid returns None, get_room of an absent room returns
\* an empty collection, and delete_user of an unknown sid, remove_user_from_room of
\* an absent room or of a sid that is not a member, and delete_room of an absent
\* room return None and leave all of the storage as it was.
C19_TotalOnMissingKeys ==
    [][ /\ (last'.ev = "get_user" /\ ~UserKnown(last'.sid))
           => ret' = None
        /\ (last'.ev = "get_room" /\ ~RoomKnown(last'.data.room))
           => IF storage = "MemoryStorage" THEN ret' = <<>> ELSE ret' = {}
        /\ \/ last'.ev = "delete_user" /\ ~UserKnown(last'.sid)
           \/ last'.ev = "remove_user_from_room"
              /\ last'.sid \notin RoomMembers(last'.data.room)
           \/ last'.ev = "delete_room" /\ ~RoomKnown(last'.data.room)
           => (ret' = None /\ users' = users /\ rooms' = rooms /\ redis' = redis) ]_vars

\* C19 witness: the storage holds a record and a room, and get_user of a sid
\* without a record has returned None.
C19_Witness ==
    /\ last.ev = "get_user"
    /\ storage = "MemoryStorage"
    /\ ~UserKnown(last.sid)
    /\ ret = None
    /\ users # EmptyDict
    /\ rooms # EmptyDict

C24_JoinEmissions ==
    last.ev = "join"
    => \/ sent = <<Emit("error", [msg |-> "Room pleine"], {last.sid})>>
       \/ /\ Len(sent) = 3
          /\ sent[1] = Emit("join_success",
                            [username |-> last.data.username, room |-> last.data.room],
                            {last.sid})
          /\ sent[2].ev = "user_joined"
          /\ sent[2].data = [username |-> last.data.username, users |-> sent[3].data.users]
          /\ last.sid \notin sent[2].to
          /\ \A t \in Sids \ {last.sid} :
                 (conn[t] = "connected" /\ IsMember(t, last.data.room)) => t \in sent[2].to
          /\ sent[3].ev = "user_list"
          /\ sent[3].to = {last.sid}
          /\ last.data.username \in Range(sent[3].data.users)

\* C24 witness: a session has joined a room that had a member, who was sent
\* user_joined.
C24_Witness ==
    /\ last.ev = "join"
    /\ Len(sent) = 3
    /\ sent[1].ev = "join_success"
    /\ \E t \in Sids \ {last.sid} : IsMember(t, last.data.room) /\ sent[2].to = {t}
    /\ sent[3].to = {last.sid}

\* ---- C28
\* the events whose handlers only relay or answer
RelayOnlyEvents == {"text_message", "call_user", "call_answer", "webrtc_signal", "hangup",
                    "connect"}

\* C28: the handlers of text_message, call_user, call_answer, webrtc_signal, hangup
\* and connect leave the session registry and every member list as they were,
\* whatever they emit.
C28_OnlyJoinAndDisconnectMutate ==
    [][ last'.ev \in RelayOnlyEvents => (users' = users /\ rooms' = rooms) ]_vars

\* C28 witness: a hangup was relayed to its target while a session record and a room
\* exist.
C28_Witness ==
    /\ last.ev = "hangup"
    /\ Len(sent) = 1
    /\ sent[1].ev = "call_ended"
    /\ sent[1].to # {}
    /\ IsMember(last.sid, get_user(users, last.sid).room)

\* ---- C29
\* C29: a call_answer of a joined session whose caller name is the name of a member
\* of its room sends exactly one event, to one such member alone: call_accepted
\* {answerer, call_type} when accepted is true, call_rejected{answerer} when it is
\* false; nothing but the request and the registries decides it.
C29_AnswerRelayed ==
    (/\ last.ev = "call_answer"
     /\ HasRecord(last.sid)
     /\ \E t \in Sids : MemberNamed(last.sid, t, last.data.caller))
    => /\ Len(sent) = 1
       /\ IF last.data.accepted
          THEN /\ sent[1].ev = "call_accepted"
               /\ sent[1].data = [answerer |-> get_user(users, last.sid).name,
                                  call_type |-> last.data.call_type]
          ELSE /\ sent[1].ev = "call_rejected"
               /\ sent[1].data = [answerer |-> get_user(users, last.sid).name]
       /\ \E t \in Sids : MemberNamed(last.sid, t, last.data.caller) /\ sent[1].to = {t}

\* C29 witness: a call_answer with accepted false was relayed as call_rejected to
\* another session.
C29_Witness ==
    /\ last.ev = "call_answer"
    /\ ~last.data.accepted
    /\ Len(sent) = 1
    /\ sent[1].ev = "call_rejected"
    /\ \E t \in Sids \ {last.sid} : sent[1].to = {t}

\* ---- C30
\* the member at position k of the list of the room of s has a record with the name
MatchAt(s, k, name) ==
    LET m == get_room(rooms, get_user(users, s).room)[k]
    IN  HasRecord(m) /\ get_user(users, m).name = name

\* C30: a call_user, call_answer, webrtc_signal or hangup of a joined session sends
\* at most one event; when it relays, the one recipient is the first member, in
\* the order of the member list of the sender's room, whose stored name is equal
\* to the requested name.
C30_FirstExactMatch ==
    (last.ev \in RelayRequests /\ HasRecord(last.sid))
    => /\ Len(sent) <= 1
       /\ \A i \in 1..Len(sent) :
              sent[i].ev \in UnicastEvents
              => \E k \in 1..Len(get_room(rooms, get_user(users, last.sid).room)) :
                     /\ MatchAt(last.sid, k, RequestedName(last))
                     /\ \A j \in 1..(k - 1) : ~MatchAt(last.sid, j, RequestedName(last))
                     /\ sent[i].to = {get_room(rooms, get_user(users, last.sid).room)[k]}

\* C30 witness: two members of the sender's room have the requested name, and the
\* event went to the first of them alone.
C30_Witness ==
    /\ last.ev \in RelayRequests
    /\ HasRecord(last.sid)
    /\ Len(sent) = 1
    /\ sent[1].ev \in UnicastEvents
    /\ \E k1, k2 \in 1..Len(get_room(rooms, get_user(users, last.sid).room)) :
           /\ k1 < k2
           /\ MatchAt(last.sid, k1, RequestedName(last))
           /\ MatchAt(last.sid, k2, RequestedName(last))
           /\ sent[1].to = {get_room(rooms, get_user(users, last.sid).room)[k1]}

\* ---- C22
\* the Redis key a write call names
WrittenKey(req) ==
    IF req.ev = "set_user" THEN user_key(req.sid) ELSE room_key(req.data.room)

\* C22: under RedisStorage, after set_user, add_user_to_room or a
\* remove_user_from_room that removed a member, the entry written, if it still
\* exists, has the full time-to-live again.
C22_WriteResetsTTL ==
    [][ (/\ storage = "RedisStorage"
         /\ \/ last'.ev \in {"set_user", "add_user_to_room"}
            \/ /\ last'.ev = "remove_user_from_room"
               /\ last'.sid \in redis_get_room(redis, last'.data.room)
         /\ WrittenKey(last') \in DOMAIN redis')
        => (WrittenKey(last') \in DOMAIN ttl' /\ ttl'[WrittenKey(last')] = TTL) ]_vars

\* ---- C23
\* C23: under RedisStorage, a session that has a record and is in the member set of
\* a room, and for which no call is made any more, ends up without a record and
\* out of that member set, whatever calls are made for other sessions.
C23_GhostExpires ==
    \A s \in StorageSids : \A R \in RoomNames :
        (/\ storage = "RedisStorage"
         /\ user_key(s) \in DOMAIN redis
         /\ s \in redis_get_room(redis, R))
        ~> \/ last.sid = s
           \/ user_key(s) \notin DOMAIN redis /\ s \notin redis_get_room(redis, R)

\* ---- C25
\* C25: add_user_to_room(R, id) makes the members of R the former members and id,
\* and changes nothing when id was a member; remove_user_from_room(R, id) makes
\* them the former members without id; delete_room(R) leaves R without members;
\* none of the three changes the members of another room; and no id is twice in a
\* member list.
C25_RoomIsSet ==
    [][ /\ last'.ev \in {"add_user_to_room", "remove_user_from_room", "delete_room"}
           => LET R == last'.data.room
                  before == RoomMembers(R)
                  after == IF storage = "MemoryStorage" THEN Range(get_room(rooms', R))
                                                        ELSE redis_get_room(redis', R)
              IN  /\ last'.ev = "add_user_to_room" => after = before \cup {last'.sid}
                  /\ (last'.ev = "add_user_to_room" /\ last'.sid \in before)
                     => (rooms' = rooms /\ redis' = redis)
                  /\ last'.ev = "remove_user_from_room" => after = before \ {last'.sid}
                  /\ last'.ev = "delete_room" => after = {}
                  /\ \A R2 \in RoomNames \ {R} :
                         /\ get_room(rooms', R2) = get_room(rooms, R2)
                         /\ redis_get_room(redis', R2) = redis_get_room(redis, R2)
        /\ \A R \in RoomNames :
               Cardinality(Range(get_room(rooms', R))) = Len(get_room(rooms', R)) ]_vars

\* C25 witness: an id was added to a room that held it and another id, and the room
\* holds the two, each once.
C25_Witness ==
    /\ storage = "MemoryStorage"
    /\ last.ev = "add_user_to_room"
    /\ Len(get_room(rooms, last.data.room)) = 2
    /\ get_room(rooms, last.data.room)[1] = last.sid
    /\ \E R2 \in RoomNames \ {last.data.room} : get_room(rooms, R2) # <<>>

\* ---- C26
\* C26: set_user(sid, data) makes get_user(sid) return data and leaves the other
\* records alone, delete_user(sid) makes get_user(sid) return None and leaves the
\* other records alone, and a MemoryStorage that get_storage() has just made holds
\* no users.
C26_UsersOwnedByInstance ==
    [][ storage' = "MemoryStorage"
        => /\ last'.ev = "set_user"
              => /\ get_user(users', last'.sid) = last'.data
                 /\ \A s \in StorageSids \ {last'.sid} :
                        get_user(users', s) = get_user(users, s)
           /\ last'.ev = "delete_user"
              => /\ get_user(users', last'.sid) = None
                 /\ \A s \in StorageSids \ {last'.sid} :
                        get_user(users', s) = get_user(users, s)
           /\ (last'.ev = "get_storage" /\ storage = "None")
              => get_users(users') = EmptyDict ]_vars

\* ---- C21
\* C21: when a Redis call of a handler fails, the event of that handler has had no
\* effect; in particular, for a session acting alone, the failure does not leave a
\* record of the session whose room does not hold the session.
C21_FailedEventHasNoEffect ==
    [][ (/\ last'.ev = "ConnectionError"
         /\ last.ev = "none"
         /\ \A t \in Sids \ {last'.sid} : conn[t] = "new")
        => (redis_get_user(redis', last'.sid) # None
            => last'.sid \in redis_get_room(redis',
                                            redis_get_user(redis', last'.sid).room)) ]_vars

\* ---- C27
\* the sections and keys of DEFAULT_CONFIG
DefaultKeys ==
    UNION {{<<s, k>> : k \in DOMAIN DEFAULT_VALUES[s]} : s \in DOMAIN DEFAULT_VALUES}

\* C27: a Config that has just been constructed returns the default value for every
\* key, and a set or _merge_config on one Config changes no value another Config
\* returns.
C27_ConfigIsolation ==
    [][ /\ last'.ev = "Config"
           => \A sk \in DefaultKeys :
                  config_get(cfgs', heap', last'.sid, sk[1], sk[2])
                      = DEFAULT_VALUES[sk[1]][sk[2]]
        /\ last'.ev \in {"set", "_merge_config"}
           => \A c \in Instances \ {last'.sid} :
                  cfgs[c] # NoConfig
                  => config_get(cfgs', heap', c, last'.data.section, last'.data.key)
                         = config_get(cfgs, heap, c, last'.data.section, last'.data.key)
      ]_vars

\* ---- C31
\* C31: the member-name comprehension of join and disconnect never subscripts the
\* record of an absent session: whenever a handler is about to read
\* get_user(s)['name'] for a member s that passed the filter, the record of s is
\* there, whatever another session's handler did between the two lookups.
C31_NameReadFindsRecord ==
    \A sid \in RedisSids :
        pc[sid] \in {"j_name", "d_name"} => redis_get_user(redis, loc[sid].cur) # None

\* ---- C32
\* C32: with every join handler run to completion before the next handler starts,
\* no room ever lists more members than limits.max_users_per_room, whatever joins,
\* repeated joins and disconnects were handled.
C32_CapacityInvariant ==
    \A R \in DOMAIN rooms : Len(get_room(rooms, R)) <= config.max_users_per_room

\* C32 witness: after a disconnect, a room filled up to the largest capacity and a
\* session that is already a member of it sent join for it again.
C32_Witness ==
    /\ last.ev = "join"
    /\ config.max_users_per_room = MaxCap
    /\ Len(get_room(rooms, last.data.room)) = MaxCap
    /\ InList(get_room(rooms, last.data.room), last.sid)
    /\ \E t \in Sids : conn[t] = "disconnected"

\* ---- C33
\* C33: a text_message event is delivered exactly to the connected sessions whose
\* record names the room the sender's record names; a session that never joined that
\* room, or whose latest join was for another room, does not receive it.
C33_BroadcastRoomIsolation ==
    (/\ last.ev = "text_message"
     /\ Len(sent) = 1
     /\ sent[1].ev = "text_message")
    => sent[1].to = {t \in Sids : /\ conn[t] = "connected"
                                  /\ HasRecord(t)
                                  /\ get_user(users, t).room
                                         = get_user(users, last.sid).room}

\* ---- C34
\* C34: after the same sequence of set_user, delete_user, add_user_to_room,
\* remove_user_from_room and delete_room calls, with no key expiring, MemoryStorage
\* and RedisStorage return equal results: get_user and get_users the same records,
\* get_room the same members, get_rooms the same room names with the same members.
C34_BackendsEquivalent ==
    /\ last.ev \in {"get_user", "get_users"} => ret.memory = ret.redis
    /\ last.ev = "get_room" => Range(ret.memory) = ret.redis
    /\ last.ev = "get_rooms" =>
           /\ DOMAIN ret.memory = DOMAIN ret.redis
           /\ \A room_name \in DOMAIN ret.memory :
                  Range(ret.memory[room_name]) = ret.redis[room_name]

\* ---- C35
\* the members of the list without s, in order
Without(list, s) == SelectSeq(list, LAMBDA m : m # s)

\* the display names of the members of the list that have a record
DisplayNames(list) ==
    LET kept == SelectSeq(list, LAMBDA m : m \in DOMAIN users)
    IN  [i \in 1..Len(kept) |-> users[kept[i]].name]

\* s has a record, and the room of the record lists s
Joined(s) == s \in DOMAIN users /\ InList(get_room(rooms, users[s].room), s)

\* C35: the disconnect of a joined session s emits exactly one event, user_left, to
\* the other sessions of s's room, with username the display name of s and users the
\* display names of the members the room lists once s is taken out of it; s itself
\* is not among the members counted.
C35_UserLeftOnDisconnect ==
    [][ (last'.ev = "disconnect" /\ Joined(last'.sid))
        => LET s == last'.sid
               room == users[s].room
           IN  /\ sent' = <<Emit("user_left",
                                 [username |-> users[s].name,
                                  users |-> DisplayNames(Without(get_room(rooms, room), s))],
                                 InRoom(troom, room) \ {s})>>
               /\ ~InList(get_room(rooms', room), s) ]_vars

====
